---- MODULE Spec2Model ----
(***************************************************************************)
(* The game store of Snake-Site (GameContext: src/unnamed/part_000).       *)
(* gameState is the React state of GameProvider; every store operation is  *)
(* one functional updater setGameState(prev => ...) and is one action.     *)
(* timer is the time elapsed on the interval GameBoard's effect has set    *)
(* (src/src/components/GameBoard.tsx), in steps of which TimerSteps make   *)
(* one period.                                                             *)
(* Positions are pairs <<x, y>>, bodies and food lists are sequences (head *)
(* first), the snake list and the score list are functions on 0..1 so that *)
(* the indices are the source's.                                           *)
(***************************************************************************)
EXTENDS Integers, Sequences, FiniteSets, TLC

VARIABLES gameState, lastOp, moved, ticks, inputs, timer

vars == <<gameState, lastOp, moved, ticks, inputs, timer>>

(***************************************************************************)
(* Program constants                                                       *)
(***************************************************************************)
GRID_WIDTH == 40
GRID_HEIGHT == 30

DefaultSpeed == 100
DefaultColors == <<"#4ade80", "#60a5fa">>

GameModes == {"SINGLE", "MULTIPLAYER", "AI_VS_AI"}

\* const directions: Direction[] = ['UP', 'DOWN', 'LEFT', 'RIGHT']
directions == <<"UP", "DOWN", "LEFT", "RIGHT">>

Direction == {"UP", "DOWN", "LEFT", "RIGHT"}

opposites == [UP |-> "DOWN", DOWN |-> "UP", LEFT |-> "RIGHT", RIGHT |-> "LEFT"]

(***************************************************************************)
(* Bounds of the model                                                     *)
(***************************************************************************)
\* ticks explored after construction and after each start
MaxTicks == 6
\* input events (setDirection, placeFood, updateSettings) explored after
\* construction and after each start
MaxInputs == 2

\* steps of time in one period of the interval
TimerSteps == 2

\* cells Math.random() is taken to draw in generateRandomPosition
SpawnCells == {<<5, 5>>, <<6, 5>>, <<7, 5>>}
\* the cells drawn when every cell of SpawnCells is occupied
ReserveCells == {<<20, 15>>}
\* cells the pointer is taken to click (GameBoard passes grid cells only)
FoodCells == {<<11, 5>>, <<28, 24>>}
\* settings the collaborator is taken to pass to updateSettings
AltColors == <<"#f472b6", "#facc15">>
SettingsInputs == {[speed |-> 50, snakeColors |-> AltColors]}
\* snake indices the collaborator is taken to pass; 2 is no index of the list
SnakeIndexInputs == 0 .. 2
\* the directions passed with an index: all four for a snake of the list, one
\* for the index that has no snake (the call throws before it reads it)
DirectionInputs(snakeIndex) == IF snakeIndex \in 0 .. 1 THEN Direction ELSE {"UP"}

(***************************************************************************)
(* Helpers                                                                 *)
(***************************************************************************)
Abs(n) == IF n < 0 THEN 0 - n ELSE n

\* Math.abs(a[0] - b[0]) + Math.abs(a[1] - b[1])
Manhattan(a, b) == Abs(a[1] - b[1]) + Abs(a[2] - b[2])

\* array.some(([x, y]) => x === position[0] && y === position[1])
OnList(position, list) == \E k \in 1 .. Len(list) : list[k] = position

isPositionOccupied(position, snakes, foods) ==
    LET occupiedBySnake == \E i \in DOMAIN snakes : OnList(position, snakes[i].body)
        occupiedByFood == OnList(position, foods)
    IN  occupiedBySnake \/ occupiedByFood

\* generateFood that returns its first draw
generateFoodFirstDraw(snakes, foods) == SpawnCells

\* The results generateFood can return: the do-while loop redraws until the
\* drawn cell is not occupied.  The draws are those of SpawnCells and, were
\* all of these occupied, those of ReserveCells.
generateFood(snakes, foods) ==
    LET free(cells) ==
            {position \in cells : ~isPositionOccupied(position, snakes, foods)}
    IN  IF free(SpawnCells) # {} THEN free(SpawnCells) ELSE free(ReserveCells)

InitialSnakes ==
    [i \in 0 .. 1 |->
        IF i = 0 THEN [body |-> <<<<5, 5>>>>, direction |-> "RIGHT"]
                 ELSE [body |-> <<<<GRID_WIDTH - 6, GRID_HEIGHT - 6>>>>,
                       direction |-> "LEFT"]]

\* createInitialState(mode), food being the cell generateFood(snakes) returned
createInitialState(mode, food) ==
    [isRunning |-> FALSE,
     snakes |-> InitialSnakes,
     food |-> <<food>>,
     scores |-> [i \in 0 .. 1 |-> 0],
     speed |-> DefaultSpeed,
     snakeColors |-> DefaultColors,
     gameMode |-> mode]

isSafeMove(position, snakes) ==
    LET x == position[1]
        y == position[2]
    IN  IF x < 0 \/ x >= GRID_WIDTH \/ y < 0 \/ y >= GRID_HEIGHT
        THEN FALSE
        ELSE ~(\E i \in DOMAIN snakes : OnList(position, snakes[i].body))

getNextPosition(position, direction) ==
    LET x == position[1]
        y == position[2]
    IN  CASE direction = "UP" -> <<x, y - 1>>
          [] direction = "DOWN" -> <<x, y + 1>>
          [] direction = "LEFT" -> <<x - 1, y>>
          [] direction = "RIGHT" -> <<x + 1, y>>

\* foodList.reduce((prev, curr) => currDist < prevDist ? curr : prev, foodList[0])
RECURSIVE ReduceFood(_, _, _, _)
ReduceFood(foodList, k, acc, head) ==
    IF k > Len(foodList) THEN acc
    ELSE ReduceFood(foodList, k + 1,
                    IF Manhattan(foodList[k], head) < Manhattan(acc, head)
                    THEN foodList[k] ELSE acc,
                    head)

\* the reduction over the scores in which a later direction wins a tie
RECURSIVE ReduceBestLast(_, _, _, _, _)
ReduceBestLast(dirs, k, best, head, target) ==
    IF k > Len(dirs) THEN best
    ELSE ReduceBestLast(dirs, k + 1,
                        IF 0 - Manhattan(getNextPosition(head, dirs[k]), target)
                             >= 0 - Manhattan(getNextPosition(head, best), target)
                        THEN dirs[k] ELSE best,
                        head, target)

\* directionScores.reduce((best, current) => current.score > best.score ? current : best)
\* with score = -distanceToFood
RECURSIVE ReduceBest(_, _, _, _, _)
ReduceBest(dirs, k, best, head, target) ==
    IF k > Len(dirs) THEN best
    ELSE ReduceBest(dirs, k + 1,
                    IF 0 - Manhattan(getNextPosition(head, dirs[k]), target)
                         > 0 - Manhattan(getNextPosition(head, best), target)
                    THEN dirs[k] ELSE best,
                    head, target)

\* AI function to determine next direction (foodList is not empty)
getNextDirection(snake, foodList, otherSnake) ==
    LET head == snake.body[1]
        targetFood == ReduceFood(foodList, 1, foodList[1], head)
        both == [i \in 0 .. 1 |-> IF i = 0 THEN snake ELSE otherSnake]
        valid(dir) == /\ dir # opposites[snake.direction]
                      /\ isSafeMove(getNextPosition(head, dir), both)
        validDirections == SelectSeq(directions, valid)
        predictedOtherHead == getNextPosition(otherSnake.body[1], otherSnake.direction)
        notHeadOn(dir) == getNextPosition(head, dir) # predictedOtherHead
        filteredDirections == SelectSeq(validDirections, notHeadOn)
        finalDirections == IF Len(filteredDirections) > 0
                           THEN filteredDirections ELSE validDirections
    IN  IF Len(finalDirections) = 0
        THEN snake.direction
        ELSE ReduceBest(finalDirections, 2, finalDirections[1], head, targetFood)

(***************************************************************************)
(* updateGame, the tick (lines 201-272)                                    *)
(***************************************************************************)
\* direction resolution that lets the AI steer both snakes whenever the mode
\* has an AI snake
ResolveDirectionsAllAI(prev) ==
    IF prev.gameMode # "MULTIPLAYER"
    THEN [index \in 0 .. 1 |->
            [prev.snakes[index] EXCEPT
                !.direction = getNextDirection(prev.snakes[index], prev.food,
                                               prev.snakes[IF index = 0 THEN 1 ELSE 0])]]
    ELSE prev.snakes

\* direction resolution that evaluates the snakes of AI_VS_AI one after the
\* other, snake 1 seeing the direction snake 0 has just been given
ResolveDirectionsSequential(prev) ==
    IF prev.gameMode = "AI_VS_AI"
    THEN LET first == [prev.snakes[0] EXCEPT
                          !.direction = getNextDirection(prev.snakes[0], prev.food,
                                                         prev.snakes[1])]
         IN  [index \in 0 .. 1 |->
                IF index = 0 THEN first
                ELSE [prev.snakes[1] EXCEPT
                         !.direction = getNextDirection(prev.snakes[1], prev.food, first)]]
    ELSE IF prev.gameMode = "SINGLE"
    THEN [prev.snakes EXCEPT
            ![1] = [prev.snakes[1] EXCEPT
                       !.direction = getNextDirection(prev.snakes[1], prev.food,
                                                      prev.snakes[0])]]
    ELSE prev.snakes

\* Update snake directions based on game mode (lines 206-224).  In SINGLE
\* mode newState.snakes is the array of prev and its element 1 is replaced.
ResolveDirections(prev) ==
    IF prev.gameMode = "AI_VS_AI"
    THEN [index \in 0 .. 1 |->
            [prev.snakes[index] EXCEPT
                !.direction = getNextDirection(prev.snakes[index], prev.food,
                                               prev.snakes[IF index = 0 THEN 1 ELSE 0])]]
    ELSE IF prev.gameMode = "SINGLE"
    THEN [prev.snakes EXCEPT
            ![1] = [prev.snakes[1] EXCEPT
                       !.direction = getNextDirection(prev.snakes[1], prev.food,
                                                      prev.snakes[0])]]
    ELSE prev.snakes

\* getNextDirection reads foodList[0][0]: with an empty food list the updater
\* of an AI mode throws and no state is set.
AIThrows(prev) == prev.gameMode # "MULTIPLAYER" /\ Len(prev.food) = 0

\* const head = [...snake.body[0]]; switch (snake.direction) ... (lines 228-234)
MovedHead(snake) ==
    LET head == snake.body[1]
    IN  CASE snake.direction = "UP" -> <<head[1], head[2] - 1>>
          [] snake.direction = "DOWN" -> <<head[1], head[2] + 1>>
          [] snake.direction = "LEFT" -> <<head[1] - 1, head[2]>>
          [] snake.direction = "RIGHT" -> <<head[1] + 1, head[2]>>

\* a bounds test that lets one row above the grid pass
OutOfGridLoose(head) ==
    head[1] < 0 \/ head[1] >= GRID_WIDTH \/ head[2] < 0 - 1 \/ head[2] >= GRID_HEIGHT

\* the bounds test of line 235
OutOfGrid(head) ==
    head[1] < 0 \/ head[1] >= GRID_WIDTH \/ head[2] < 0 \/ head[2] >= GRID_HEIGHT

\* prev.food.findIndex(food => food[0] === head[0] && food[1] === head[1]),
\* counted from 1; 0 where the source has -1
foodIndex(food, head) ==
    IF OnList(head, food)
    THEN CHOOSE k \in 1 .. Len(food) :
            food[k] = head /\ \A j \in 1 .. (k - 1) : food[j] # head
    ELSE 0

\* prev.food.filter((_, index) => index !== foodIndex)
FilterIndex(food, idx) ==
    [k \in 1 .. (Len(food) - 1) |-> IF k < idx THEN food[k] ELSE food[k + 1]]

Exits(snake) == OutOfGrid(MovedHead(snake))

Eats(snake, prevFood) ==
    ~Exits(snake) /\ foodIndex(prevFood, MovedHead(snake)) > 0

\* the map callback that drops the tail also when the snake eats
MoveSnakeNoGrowth(snake, prevFood) ==
    LET head == MovedHead(snake)
    IN  IF OutOfGrid(head)
        THEN snake
        ELSE [snake EXCEPT !.body = <<head>> \o SubSeq(snake.body, 1, Len(snake.body) - 1)]

\* the callback of newState.snakes.map (lines 227-250): the snake returned
MoveSnake(snake, prevFood) ==
    LET head == MovedHead(snake)
    IN  IF OutOfGrid(head)
        THEN snake
        ELSE IF foodIndex(prevFood, head) > 0
        THEN [snake EXCEPT !.body = <<head>> \o snake.body]
        ELSE [snake EXCEPT !.body = <<head>> \o SubSeq(snake.body, 1, Len(snake.body) - 1)]

\* scores that a tick leaves as they were
ScoresAfterMoveNoCredit(prevScores, snakes, prevFood) == prevScores

\* newScores after the map: newScores[snakeIndex] += 1 for each snake that ate
ScoresAfterMove(prevScores, snakes, prevFood) ==
    [snakeIndex \in 0 .. 1 |->
        IF Eats(snakes[snakeIndex], prevFood)
        THEN prevScores[snakeIndex] + 1
        ELSE prevScores[snakeIndex]]

\* newState.food after the map: each snake that eats assigns
\* prev.food.filter(...), snake 0 first, snake 1 after it (line 245)
FoodAfterMove(snakes, prevFood) ==
    LET after0 == IF Eats(snakes[0], prevFood)
                  THEN FilterIndex(prevFood, foodIndex(prevFood, MovedHead(snakes[0])))
                  ELSE prevFood
        after1 == IF Eats(snakes[1], prevFood)
                  THEN FilterIndex(prevFood, foodIndex(prevFood, MovedHead(snakes[1])))
                  ELSE after0
    IN  after1

\* a bounds test that returns the snake without stopping the game
RunningAfterMoveKeeps(prevRunning, snakes) == prevRunning

\* newState.isRunning after the map (line 236)
RunningAfterMove(prevRunning, snakes) ==
    IF \E i \in 0 .. 1 : Exits(snakes[i]) THEN FALSE ELSE prevRunning

\* a collision check that compares the segments of different snakes only
hasCollisionBetweenSnakes(snakes) ==
    \E index \in 1 .. Len(snakes[0].body) :
        \E otherIndex \in 1 .. Len(snakes[1].body) :
            snakes[0].body[index] = snakes[1].body[otherIndex]

\* Check collisions between snakes (lines 260-265)
hasCollision(snakes) ==
    LET allSegments == snakes[0].body \o snakes[1].body
    IN  \E index \in 1 .. Len(allSegments) :
            \E otherIndex \in 1 .. Len(allSegments) :
                index # otherIndex /\ allSegments[index] = allSegments[otherIndex]

\* whether line 253 finds the food list empty
NeedsSpawn(prev) ==
    ~AIThrows(prev) /\ Len(FoodAfterMove(ResolveDirections(prev), prev.food)) = 0

\* The updater of updateGame: the state returned for prev, spawn being the
\* cell generateFood returns when line 253 finds the food list empty.
updateGameUpdater(prev, spawn) ==
    IF AIThrows(prev) THEN prev
    ELSE
    LET turned == ResolveDirections(prev)
        newSnakes == [snakeIndex \in 0 .. 1 |-> MoveSnake(turned[snakeIndex], prev.food)]
        movedFood == FoodAfterMove(turned, prev.food)
        newFood == IF Len(movedFood) = 0 THEN <<spawn>> ELSE movedFood
        running == RunningAfterMove(prev.isRunning, turned)
    IN  [prev EXCEPT
            !.snakes = newSnakes,
            !.food = newFood,
            !.scores = ScoresAfterMove(prev.scores, turned, prev.food),
            !.isRunning = IF hasCollision(newSnakes) THEN FALSE ELSE running]

\* the cells generateFood(newState.snakes, []) can return at line 254
SpawnChoices(prev) ==
    IF AIThrows(prev) THEN {<<0, 0>>}
    ELSE
    LET turned == ResolveDirections(prev)
    IN  IF Len(FoodAfterMove(turned, prev.food)) = 0
        THEN generateFood([snakeIndex \in 0 .. 1 |-> MoveSnake(turned[snakeIndex], prev.food)],
                          <<>>)
        ELSE {<<0, 0>>}

\* The snapshot object prev as updateGame leaves it.  newState = { ...prev }
\* is a shallow copy, so newState.snakes and newState.food are the arrays of
\* prev until they are reassigned: in SINGLE mode newState.snakes[1] = ...
\* (line 217) writes element 1 of prev.snakes, and newState.food.push (line
\* 254) writes prev.food when no snake ate.
PrevAfterUpdateGame(prev, spawn) ==
    IF AIThrows(prev) THEN prev
    ELSE [prev EXCEPT
            !.snakes = IF prev.gameMode = "SINGLE"
                       THEN ResolveDirections(prev)
                       ELSE prev.snakes,
            !.food = IF Len(prev.food) = 0 THEN <<spawn>> ELSE prev.food]

(***************************************************************************)
(* The other updaters                                                      *)
(***************************************************************************)
\* updateSettings (lines 93-98): { ...prev, ...settings }
updateSettingsUpdater(prev, settings) ==
    [f \in DOMAIN prev |-> IF f \in DOMAIN settings THEN settings[f] ELSE prev[f]]

\* setFoodPosition that tests the click against the snakes only
setFoodPositionOverFood(prev, position) ==
    IF ~prev.isRunning THEN prev
    ELSE IF isPositionOccupied(position, prev.snakes, <<>>) THEN prev
    ELSE [prev EXCEPT !.food = prev.food \o <<position>>]

\* setFoodPosition (lines 100-114)
setFoodPositionUpdater(prev, position) ==
    IF ~prev.isRunning THEN prev
    ELSE IF isPositionOccupied(position, prev.snakes, prev.food) THEN prev
    ELSE [prev EXCEPT !.food = prev.food \o <<position>>]

\* const snake = prev.snakes[snakeIndex] is undefined for an index outside the
\* list, and reading snake.direction (line 126) then throws a TypeError
setSnakeDirectionThrows(prev, snakeIndex) == snakeIndex \notin DOMAIN prev.snakes

\* setSnakeDirection (lines 117-134); when the updater throws no state is set
setSnakeDirectionUpdater(prev, snakeIndex, direction) ==
    IF setSnakeDirectionThrows(prev, snakeIndex) THEN prev
    ELSE
    LET snake == prev.snakes[snakeIndex]
    IN  IF opposites[snake.direction] = direction
        THEN prev
        ELSE [prev EXCEPT
                !.snakes = [index \in 0 .. 1 |->
                               IF index = snakeIndex
                               THEN [prev.snakes[index] EXCEPT !.direction = direction]
                               ELSE prev.snakes[index]]]

\* startGame that spreads the fresh state over the kept settings
startGameResetsSettings(prev, mode, food) ==
    [createInitialState(mode, food) EXCEPT !.isRunning = TRUE]

\* startGame (lines 275-282), food being the cell generateFood returned
startGameUpdater(prev, mode, food) ==
    [createInitialState(mode, food) EXCEPT
        !.speed = prev.speed,
        !.snakeColors = prev.snakeColors,
        !.isRunning = TRUE]

(***************************************************************************)
(* State machine                                                           *)
(***************************************************************************)
NoSnake == [i \in 0 .. 1 |-> FALSE]

\* lastOp records the operation that produced the state: its name and
\* arguments, whether the game was running before it, whether the updater
\* returned a new snapshot (fresh) and, for a tick, which snakes ate or left
\* the grid and whether a food item was spawned; threw tells that the updater
\* threw instead of returning, orderMatters that evaluating the two AI snakes
\* one after the other would have given other directions.
Op(name, running, fresh) ==
    [op |-> name, running |-> running, fresh |-> fresh, threw |-> FALSE,
     snakeIndex |-> 0, direction |-> "UP", position |-> <<0, 0>>, mode |-> "SINGLE",
     ate |-> NoSnake, exited |-> NoSnake, spawned |-> FALSE, orderMatters |-> FALSE]

\* useState(createInitialState('SINGLE'))
Init ==
    /\ \E food \in generateFood(InitialSnakes, <<>>) :
          gameState = createInitialState("SINGLE", food)
    /\ lastOp = Op("init", FALSE, TRUE)
    /\ moved = [i \in 0 .. 1 |-> InitialSnakes[i].direction]
    /\ ticks = 0
    /\ inputs = 0
    /\ timer = 0

\* GameBoard's effect depends on gameState: a new snapshot re-renders, the
\* cleanup clears the interval and the effect sets a new one (lines 148-157);
\* an updater that returns prev itself makes React bail out and the interval
\* runs on.  The value of timer after an updater.
EffectTimer(fresh) == IF fresh THEN 0 ELSE timer

updateSettings ==
    /\ inputs < MaxInputs
    /\ \E settings \in SettingsInputs :
          gameState' = updateSettingsUpdater(gameState, settings)
    /\ lastOp' = Op("updateSettings", gameState.isRunning, TRUE)
    /\ timer' = EffectTimer(TRUE)
    /\ inputs' = inputs + 1
    /\ UNCHANGED <<moved, ticks>>

setFoodPosition ==
    /\ inputs < MaxInputs
    /\ \E position \in FoodCells :
          /\ gameState' = setFoodPositionUpdater(gameState, position)
          /\ lastOp' = [Op("placeFood", gameState.isRunning,
                           /\ gameState.isRunning
                           /\ ~isPositionOccupied(position, gameState.snakes,
                                                  gameState.food))
                        EXCEPT !.position = position]
    /\ timer' = EffectTimer(lastOp'.fresh)
    /\ inputs' = inputs + 1
    /\ UNCHANGED <<moved, ticks>>

\* one call setSnakeDirection(snakeIndex, direction)
setSnakeDirectionCall(snakeIndex, direction) ==
    /\ inputs < MaxInputs
    /\ gameState' = setSnakeDirectionUpdater(gameState, snakeIndex, direction)
    /\ lastOp' = [Op("setDirection", gameState.isRunning,
                     /\ ~setSnakeDirectionThrows(gameState, snakeIndex)
                     /\ opposites[gameState.snakes[snakeIndex].direction] # direction)
                  EXCEPT !.snakeIndex = snakeIndex, !.direction = direction,
                         !.threw = setSnakeDirectionThrows(gameState, snakeIndex)]
    /\ timer' = EffectTimer(lastOp'.fresh)
    /\ inputs' = inputs + 1
    /\ UNCHANGED <<moved, ticks>>

setSnakeDirection ==
    \E snakeIndex \in SnakeIndexInputs :
        \E direction \in DirectionInputs(snakeIndex) :
            setSnakeDirectionCall(snakeIndex, direction)

updateGame ==
    /\ ticks < MaxTicks
    /\ \E spawn \in SpawnChoices(gameState) :
          gameState' = updateGameUpdater(gameState, spawn)
    /\ LET threw == AIThrows(gameState)
           turned == IF threw THEN gameState.snakes ELSE ResolveDirections(gameState)
       IN  /\ lastOp' = [Op("tick", gameState.isRunning, ~threw) EXCEPT
                           !.threw = threw,
                           !.ate = [i \in 0 .. 1 |->
                                       ~threw /\ Eats(turned[i], gameState.food)],
                           !.exited = [i \in 0 .. 1 |-> ~threw /\ Exits(turned[i])],
                           !.spawned = ~threw /\ Len(FoodAfterMove(turned, gameState.food)) = 0,
                           !.orderMatters =
                               /\ gameState.gameMode = "AI_VS_AI"
                               /\ ~threw
                               /\ ResolveDirectionsSequential(gameState) # turned]
           /\ moved' = IF threw THEN moved ELSE [i \in 0 .. 1 |-> turned[i].direction]
    /\ timer' = 0
    /\ ticks' = ticks + 1
    /\ UNCHANGED inputs

startGame ==
    /\ \E mode \in GameModes :
          /\ \E food \in generateFood(InitialSnakes, <<>>) :
                gameState' = startGameUpdater(gameState, mode, food)
          /\ lastOp' = [Op("start", gameState.isRunning, TRUE) EXCEPT !.mode = mode]
    /\ moved' = [i \in 0 .. 1 |-> InitialSnakes[i].direction]
    /\ timer' = EffectTimer(TRUE)
    /\ ticks' = 0
    /\ inputs' = 0

Next ==
    \/ startGame
    \/ updateSettings
    \/ setFoodPosition
    \/ setSnakeDirection
    \/ updateGame

Spec == Init /\ [][Next]_vars

(***************************************************************************)
(* The store driven by GameBoard (src/src/components/GameBoard.tsx).  The  *)
(* effect of lines 11-157 runs again after every new snapshot, so the      *)
(* handlers and the interval callback registered at any moment read the    *)
(* current snapshot.                                                       *)
(***************************************************************************)
\* the tests that open gameLoop, handleKeyDown and handleClick
gameLoopRuns == gameState.isRunning

handleKeyDownRunsNoTest == TRUE
handleKeyDownRuns == gameState.isRunning

handleClickRuns == gameState.isRunning

\* the snakes whose direction a key can set: WASD snake 0, arrows snake 1
KeySnakes(mode) ==
    CASE mode = "SINGLE" -> {0}
      [] mode = "MULTIPLAYER" -> {0, 1}
      [] OTHER -> {}

\* a step of time during which the interval is not due
passTime ==
    /\ timer < TimerSteps
    /\ timer' = timer + 1
    /\ lastOp' = Op("wait", gameState.isRunning, FALSE)
    /\ UNCHANGED <<gameState, moved, ticks, inputs>>

\* the interval is due and calls gameLoop
gameLoop ==
    /\ timer = TimerSteps
    /\ \/ gameLoopRuns /\ updateGame
       \/ /\ ~gameLoopRuns
          /\ timer' = 0
          /\ lastOp' = Op("idle", gameState.isRunning, FALSE)
          /\ UNCHANGED <<gameState, moved, ticks, inputs>>

handleKeyDown ==
    /\ handleKeyDownRuns
    /\ \E snakeIndex \in KeySnakes(gameState.gameMode), direction \in Direction :
          setSnakeDirectionCall(snakeIndex, direction)

\* a click on a cell of the grid
handleClick ==
    /\ handleClickRuns
    /\ setFoodPosition

\* the three start buttons, rendered while the game is not running
startButton ==
    /\ ~gameState.isRunning
    /\ startGame

NextBoard ==
    \/ passTime
    \/ gameLoop
    \/ handleKeyDown
    \/ handleClick
    \/ startButton
    \/ updateSettings

SpecBoard == Init /\ [][NextBoard]_vars

(***************************************************************************)
(* The AI on its own: games of AI_VS_AI in which the two snakes are close  *)
(* to each other, to a corner of the grid and to the food, so that every   *)
(* branch of getNextDirection is taken.                                    *)
(***************************************************************************)
AIHeads0 == {<<0, 0>>, <<1, 1>>, <<10, 10>>}
AIHeads1 == {<<1, 0>>, <<2, 1>>, <<1, 2>>}
AIFood == {<<0, 2>>, <<2, 0>>, <<10, 5>>}
MaxAIFood == 2

\* a snake of one or two segments: the head and, when tailed, the cell behind it
AISnake(head, direction, tailed) ==
    LET behind == getNextPosition(head, opposites[direction])
    IN  [body |-> IF tailed /\ isSafeMove(behind, <<>>) THEN <<head, behind>> ELSE <<head>>,
         direction |-> direction]

AIFoodLists ==
    {f \in UNION {[1 .. n -> AIFood] : n \in 1 .. MaxAIFood} :
        \A j, k \in DOMAIN f : j # k => f[j] # f[k]}

AIStates ==
    {[createInitialState("AI_VS_AI", f[1]) EXCEPT
         !.snakes = [i \in 0 .. 1 |-> IF i = 0 THEN AISnake(h0, d0, t0)
                                        ELSE AISnake(h1, d1, t1)],
         !.food = f,
         !.scores = [i \in 0 .. 1 |-> IF i = 0
                                       THEN Len(AISnake(h0, d0, t0).body) - 1
                                       ELSE Len(AISnake(h1, d1, t1).body) - 1],
         !.isRunning = TRUE] :
       h0 \in AIHeads0, h1 \in AIHeads1, d0 \in Direction, d1 \in Direction,
       t0 \in BOOLEAN, t1 \in BOOLEAN, f \in AIFoodLists}

InitAI ==
    /\ gameState \in {s \in AIStates :
                         /\ ~hasCollision(s.snakes)
                         /\ \A k \in DOMAIN s.food : ~isPositionOccupied(s.food[k], s.snakes, <<>>)}
    /\ lastOp = [Op("start", FALSE, TRUE) EXCEPT !.mode = "AI_VS_AI"]
    /\ moved = [i \in 0 .. 1 |-> gameState.snakes[i].direction]
    /\ ticks = 0
    /\ inputs = 0
    /\ timer = 0

NextAI == updateGame

SpecAI == InitAI /\ [][NextAI]_vars

(***************************************************************************)
(* Properties.  A step of an operation is a step whose lastOp' names it;   *)
(* in such a step gameState is the snapshot the updater was given (prev)   *)
(* and gameState' the snapshot it returned.                                *)
(***************************************************************************)
StepOf(name) == lastOp'.op = name

\* the set of cells of a body or of a food list
Cells(list) == {list[k] : k \in 1 .. Len(list)}

\* the cell snake i heads for in a tick step: its pre-tick head shifted along
\* the direction it has after the tick
TickHead(i) == getNextPosition(gameState.snakes[i].body[1], gameState'.snakes[i].direction)

InGrid(cell) ==
    cell[1] >= 0 /\ cell[1] < GRID_WIDTH /\ cell[2] >= 0 /\ cell[2] < GRID_HEIGHT

\* C1: once the game is not running, a tick changes no field of the state.
C1_TickIsNoOpWhenNotRunning ==
    [][(StepOf("tick") /\ ~gameState.isRunning) => gameState' = gameState]_vars

\* C2: setDirection(i, d) leaves the state unchanged if and only if d is the
\* opposite of snake i's current direction or the game is not running.
C2_SetDirectionNoOpIff ==
    [][(StepOf("setDirection") /\ lastOp'.snakeIndex \in 0 .. 1) =>
         ((gameState' = gameState) <=>
            \/ lastOp'.direction =
                  opposites[gameState.snakes[lastOp'.snakeIndex].direction]
            \/ ~gameState.isRunning)]_vars

\* what C3 says of a start step, snake 1 starting on the cell second
StartResets(second) ==
    /\ gameState'.isRunning = TRUE
    /\ gameState'.gameMode = lastOp'.mode
    /\ gameState'.snakes[0] = [body |-> <<<<5, 5>>>>, direction |-> "RIGHT"]
    /\ gameState'.snakes[1] = [body |-> <<second>>, direction |-> "LEFT"]
    /\ gameState'.scores = [i \in 0 .. 1 |-> 0]
    /\ Len(gameState'.food) = 1
    /\ gameState'.food[1] \notin {<<5, 5>>, second}
    /\ gameState'.speed = gameState.speed
    /\ gameState'.snakeColors = gameState.snakeColors

\* C3 as stated: start(mode), from any state, yields a running game of that
\* mode with snake 0 = [(5,5)] facing RIGHT, snake 1 = [(34,23)] facing LEFT,
\* scores [0, 0], exactly one food item lying on neither snake, and the speed
\* and colors it had.
C3_StartResetsAsStated ==
    [][StepOf("start") => StartResets(<<34, 23>>)]_vars

\* C3 (amended): the same with snake 1 = [(34,24)], the cell
\* (GRID_WIDTH - 6, GRID_HEIGHT - 6).
C3_StartResets ==
    [][StepOf("start") => StartResets(<<34, 24>>)]_vars

\* a start applied to a running game whose speed and colors had been changed
C3_Witness ==
    /\ lastOp.op = "start"
    /\ lastOp.running
    /\ gameState.speed # DefaultSpeed
    /\ gameState.snakeColors # DefaultColors

\* C4: placeFood(p) changes nothing when the game is not running or p is the
\* cell of a snake segment or of a food item; otherwise it appends p to the
\* food list and changes nothing else.
C4_PlaceFood ==
    [][StepOf("placeFood") =>
         LET p == lastOp'.position
             blocked == \/ ~gameState.isRunning
                        \/ p \in Cells(gameState.snakes[0].body)
                        \/ p \in Cells(gameState.snakes[1].body)
                        \/ p \in Cells(gameState.food)
         IN  IF blocked
             THEN gameState' = gameState
             ELSE gameState' = [gameState EXCEPT !.food = Append(gameState.food, p)]]_vars

\* a placeFood that was accepted next to an existing food item
C4_Witness ==
    /\ lastOp.op = "placeFood"
    /\ lastOp.fresh
    /\ Len(gameState.food) >= 2
    /\ gameState.food[Len(gameState.food)] = lastOp.position

\* C5: in a tick a snake whose new head lands on a cell of the pre-tick food
\* list grows by exactly 1 and scores exactly 1; any other snake keeps its
\* length and its score.
C5_GrowthAndScore ==
    [][StepOf("tick") =>
         \A i \in 0 .. 1 :
            IF TickHead(i) \in Cells(gameState.food)
            THEN /\ Len(gameState'.snakes[i].body) = Len(gameState.snakes[i].body) + 1
                 /\ gameState'.scores[i] = gameState.scores[i] + 1
            ELSE /\ Len(gameState'.snakes[i].body) = Len(gameState.snakes[i].body)
                 /\ gameState'.scores[i] = gameState.scores[i]]_vars

\* a tick in which both snakes ate
C5_Witness ==
    /\ lastOp.op = "tick"
    /\ lastOp.ate[0]
    /\ lastOp.ate[1]

\* C6: a food item a snake's new head moves onto in a tick is absent from
\* the food list at the end of the tick, for every snake that eats in it.
C6_EatenFoodIsRemoved ==
    [][StepOf("tick") =>
         \A i \in 0 .. 1 :
            (InGrid(TickHead(i)) /\ TickHead(i) \in Cells(gameState.food))
               => TickHead(i) \notin Cells(gameState'.food)]_vars

\* the body a snake that stays in the grid has after a tick: the new head
\* before its whole body if the head lands on food, else before its body
\* without the last segment
NormalMove(i) ==
    IF TickHead(i) \in Cells(gameState.food)
    THEN <<TickHead(i)>> \o gameState.snakes[i].body
    ELSE <<TickHead(i)>> \o SubSeq(gameState.snakes[i].body, 1,
                                    Len(gameState.snakes[i].body) - 1)

\* C7: in a tick a snake whose new head falls outside the grid stops the game
\* and keeps its pre-tick body, while the other snake, if it stays in the
\* grid, moves and eats as in any tick.
C7_WallExit ==
    [][StepOf("tick") =>
         \A i \in 0 .. 1 :
            ~InGrid(TickHead(i)) =>
               /\ gameState'.isRunning = FALSE
               /\ gameState'.snakes[i].body = gameState.snakes[i].body
               /\ InGrid(TickHead(1 - i)) =>
                     /\ gameState'.snakes[1 - i].body = NormalMove(1 - i)
                     /\ gameState'.scores[1 - i] =
                           gameState.scores[1 - i]
                              + (IF TickHead(1 - i) \in Cells(gameState.food)
                                 THEN 1 ELSE 0)]_vars

\* a tick of a running game in which snake 0 left the grid and snake 1 ate
C7_Witness ==
    /\ lastOp.op = "tick"
    /\ lastOp.running
    /\ lastOp.exited[0]
    /\ lastOp.ate[1]
    /\ gameState.isRunning = FALSE

\* two segments at different positions of the flattened segment list share a cell
Overlap(snakes) ==
    LET segments == snakes[0].body \o snakes[1].body
    IN  Cardinality(Cells(segments)) < Len(segments)

C9_FoodNeverEmpty ==
    [][/\ Len(gameState.food) > 0
       /\ Len(gameState'.food) > 0
       /\ (StepOf("tick") /\ lastOp'.spawned) =>
             /\ Len(gameState'.food) = 1
             /\ \A i \in 0 .. 1 :
                   gameState'.food[1] \notin Cells(gameState'.snakes[i].body)]_vars

\* a tick whose movement emptied the food list
C9_Witness ==
    /\ lastOp.op = "tick"
    /\ lastOp.spawned
    /\ lastOp.ate[0]
    /\ Len(gameState.food) = 1

\* snake i is steered by setDirection, not by the AI
Human(i) ==
    \/ gameState.gameMode = "MULTIPLAYER"
    \/ gameState.gameMode = "SINGLE" /\ i = 0

\* C10: between two ticks no sequence of setDirection calls leaves a snake
\* facing the direction opposite to the one it moved in at the previous tick.
C10_NoReversalBetweenTicks ==
    (gameState.isRunning /\ ticks > 0) =>
        \A i \in 0 .. 1 :
            Human(i) => gameState.snakes[i].direction # opposites[moved[i]]


\* C11: the mode alone decides which directions a tick changes: none in
\* MULTIPLAYER; in SINGLE only snake 1's, set by the AI, snake 0 keeping the
\* direction it had; in AI_VS_AI both, each set by the AI.
C11_ModeDecidesDirections ==
    [][StepOf("tick") =>
         LET AI(i) == getNextDirection(gameState.snakes[i], gameState.food,
                                       gameState.snakes[1 - i])
         IN  /\ gameState.gameMode = "MULTIPLAYER" =>
                   \A i \in 0 .. 1 :
                      gameState'.snakes[i].direction = gameState.snakes[i].direction
             /\ gameState.gameMode = "SINGLE" =>
                   /\ gameState'.snakes[0].direction = gameState.snakes[0].direction
                   /\ gameState'.snakes[1].direction = AI(1)
             /\ gameState.gameMode = "AI_VS_AI" =>
                   \A i \in 0 .. 1 : gameState'.snakes[i].direction = AI(i)]_vars

\* the first tick of a running SINGLE game: snake 0 keeps the direction set
\* by setDirection, snake 1 has been turned by the AI
C11_Witness ==
    /\ lastOp.op = "tick"
    /\ lastOp.running
    /\ ticks = 1
    /\ gameState.gameMode = "SINGLE"
    /\ gameState.snakes[0].direction = "UP"
    /\ gameState.snakes[1].direction # "LEFT"


\* C12: setDirection with an index that is no index of the snake list raises
\* no error and leaves the state unchanged.
C12_InvalidIndexIsNoOp ==
    [][(StepOf("setDirection") /\ lastOp'.snakeIndex \notin 0 .. 1) =>
         (~lastOp'.threw /\ gameState' = gameState)]_vars


\* C13: a tick builds a new snapshot and leaves the one it was given as it
\* was, so that the same tick applied again to that snapshot computes the
\* same directions.
C13_TickLeavesPrevIntact ==
    [][StepOf("tick") =>
         \A spawn \in SpawnChoices(gameState) :
            LET after == PrevAfterUpdateGame(gameState, spawn)
            IN  /\ after = gameState
                /\ \A i \in 0 .. 1 :
                      ResolveDirections(after)[i].direction
                         = ResolveDirections(gameState)[i].direction]_vars


(***************************************************************************)
(* C14: in the composed system (GameBoard driving the store) tick,         *)
(* setDirection and placeFood are invoked only while the game is running,  *)
(* so that once running is false the bodies and directions of the snakes,  *)
(* the food list and the scores stay as they are until start is called.    *)
(***************************************************************************)
C14_BoardFrozenWhenStopped ==
    [][/\ (StepOf("tick") \/ StepOf("setDirection") \/ StepOf("placeFood"))
             => gameState.isRunning
       /\ (~gameState.isRunning /\ ~StepOf("start"))
             => /\ gameState'.snakes = gameState.snakes
                /\ gameState'.food = gameState.food
                /\ gameState'.scores = gameState.scores]_vars

\* the game has stopped on a wall exit, time has run a full period since and
\* the interval has called gameLoop, which did nothing
C14_Witness ==
    /\ lastOp.op = "idle"
    /\ ~gameState.isRunning
    /\ ticks > 0


(***************************************************************************)
(* C15: for every AI snake, non-empty food list and opposing snake,        *)
(* getNextDirection returns the result of the greedy rule: the target is   *)
(* the food nearest to the head (Manhattan distance, earliest in the list  *)
(* on ties); the candidates are the directions, in the order UP, DOWN,     *)
(* LEFT, RIGHT, that are not the reverse of the current direction and      *)
(* whose next cell is inside the grid and on no body segment of either     *)
(* snake; candidates landing on the opposing snake's predicted next head   *)
(* are removed unless that removes all of them; with no candidate the      *)
(* current direction is kept, otherwise the candidate whose next cell is   *)
(* nearest to the target is returned (earliest candidate on ties).  The AI *)
(* never returns the reverse of its direction, and with head (10,10),      *)
(* direction RIGHT, sole food (10,5) and no obstacle it returns UP.        *)
(***************************************************************************)
GreedyTarget(head, foodList) ==
    foodList[CHOOSE k \in DOMAIN foodList :
                \A j \in DOMAIN foodList :
                    \/ Manhattan(foodList[k], head) < Manhattan(foodList[j], head)
                    \/ Manhattan(foodList[k], head) = Manhattan(foodList[j], head) /\ k <= j]

Rank(dir) == CHOOSE k \in 1 .. 4 : directions[k] = dir

GreedyCandidates(snake, otherSnake) ==
    LET all == {dir \in Direction :
                  /\ dir # opposites[snake.direction]
                  /\ InGrid(getNextPosition(snake.body[1], dir))
                  /\ getNextPosition(snake.body[1], dir)
                        \notin Cells(snake.body) \cup Cells(otherSnake.body)}
        clear == {dir \in all :
                    getNextPosition(snake.body[1], dir)
                      # getNextPosition(otherSnake.body[1], otherSnake.direction)}
    IN  IF clear = {} THEN all ELSE clear

Greedy(snake, foodList, otherSnake) ==
    LET target == GreedyTarget(snake.body[1], foodList)
        final == GreedyCandidates(snake, otherSnake)
        dist(dir) == Manhattan(getNextPosition(snake.body[1], dir), target)
    IN  IF final = {} THEN snake.direction
        ELSE CHOOSE dir \in final :
                \A other \in final :
                    \/ dist(dir) < dist(other)
                    \/ dist(dir) = dist(other) /\ Rank(dir) <= Rank(other)

\* snake i stands alone on (10,10) facing RIGHT and the sole food is on (10,5)
GreedyExample(i) ==
    /\ gameState.snakes[i].body = <<<<10, 10>>>>
    /\ gameState.snakes[i].direction = "RIGHT"
    /\ gameState.food = <<<<10, 5>>>>

C15_AIIsGreedy ==
    [][(StepOf("tick") /\ gameState.gameMode = "AI_VS_AI" /\ Len(gameState.food) > 0) =>
         \A i \in 0 .. 1 :
            LET returned == getNextDirection(gameState.snakes[i], gameState.food,
                                             gameState.snakes[1 - i])
            IN  /\ returned = Greedy(gameState.snakes[i], gameState.food, gameState.snakes[1 - i])
                /\ returned # opposites[gameState.snakes[i].direction]
                /\ gameState'.snakes[i].direction = returned
                /\ GreedyExample(i) => returned = "UP"]_vars

\* a tick in which snake 0, in the corner with snake 1 beside it and no
\* candidate left, kept its direction and left the grid while snake 1 turned
C15_Witness ==
    /\ lastOp.op = "tick"
    /\ gameState.gameMode = "AI_VS_AI"
    /\ ticks = 1
    /\ lastOp.exited[0]
    /\ gameState.snakes[0].direction = moved[0]
    /\ ~lastOp.exited[1]

(***************************************************************************)
(* C16: in AI_VS_AI both snakes' new directions in a tick are computed     *)
(* from the same pre-tick snapshot: the choice of snake 1 uses the         *)
(* pre-tick body and the pre-tick direction of snake 0 (and vice versa),   *)
(* never the direction snake 0 has just been given in the same tick, so    *)
(* that the result does not depend on the order of evaluation.             *)
(***************************************************************************)
\* the directions the two snakes are given when each is shown the other as
\* it is in shown
FromSnapshot(shown, foodList) ==
    [i \in 0 .. 1 |-> getNextDirection(shown[i], foodList, shown[1 - i])]

C16_SimultaneousAI ==
    [][(StepOf("tick") /\ gameState.gameMode = "AI_VS_AI" /\ Len(gameState.food) > 0) =>
         \A i \in 0 .. 1 :
            gameState'.snakes[i].direction
              = FromSnapshot(gameState.snakes, gameState.food)[i]]_vars

\* a tick of AI_VS_AI in which an evaluation of snake 0 first and snake 1
\* second, on the updated state, would have turned a snake elsewhere
C16_Witness ==
    /\ lastOp.op = "tick"
    /\ gameState.gameMode = "AI_VS_AI"
    /\ lastOp.orderMatters


(***************************************************************************)
(* C17: while the game is running the timer keeps delivering ticks         *)
(* whatever the input: setDirection and placeFood events arriving between  *)
(* ticks do not restart or postpone the interval, so that the time elapsed *)
(* towards the next tick is the same after such an event as before it.     *)
(***************************************************************************)
C17_InputsLeaveIntervalAlone ==
    [][(gameState.isRunning /\ (StepOf("setDirection") \/ StepOf("placeFood")))
          => timer' = timer]_vars


(***************************************************************************)
(* C18: in every reachable state no food item lies on a cell occupied by a *)
(* body segment of a snake, and no two food items share a cell.            *)
(***************************************************************************)
C18_FoodOnFreeDistinctCells ==
    /\ \A k \in DOMAIN gameState.food :
          ~isPositionOccupied(gameState.food[k], gameState.snakes, <<>>)
    /\ \A j, k \in DOMAIN gameState.food :
          j # k => gameState.food[j] # gameState.food[k]


(***************************************************************************)
(* C19: in every reachable state the body length of each snake equals its  *)
(* score plus 1; the body is not empty and the score is not negative.      *)
(***************************************************************************)
C19_LengthIsScorePlusOne ==
    \A i \in 0 .. 1 :
        /\ Len(gameState.snakes[i].body) = gameState.scores[i] + 1
        /\ gameState.scores[i] >= 0

\* a tick after which snake 0 has eaten twice and is three segments long
C19_Witness ==
    /\ lastOp.op = "tick"
    /\ lastOp.ate[0]
    /\ gameState.scores[0] = 2
    /\ Len(gameState.snakes[0].body) = 3

(***************************************************************************)
(* C20: in every reachable state in which the game is running, every body  *)
(* segment of both snakes lies inside the grid and no two segments, of the *)
(* same snake or of different snakes, are on the same cell.                *)
(***************************************************************************)
C20_RunningSnakesAreValid ==
    gameState.isRunning =>
        /\ \A i \in 0 .. 1 : \A cell \in Cells(gameState.snakes[i].body) : InGrid(cell)
        /\ ~Overlap(gameState.snakes)

\* a tick has brought snake 0, two segments long, to the top row of the grid
\* and the game is still running
C20_Witness ==
    /\ lastOp.op = "tick"
    /\ gameState.isRunning
    /\ Len(gameState.snakes[0].body) = 2
    /\ gameState.snakes[0].body[1][2] = 0

====
